---- MODULE Spec2Model ----
(***************************************************************************)
(* ImageCropService (src/src/png-crop.ts): crop an RGBA image to the       *)
(* bounding box of its non-transparent pixels.                             *)
(*                                                                         *)
(* An image is a record [present, width, height, data]; data is the RGBA   *)
(* channel array (JavaScript index i is data[i+1] here).  A canvas is a    *)
(* record [width, height, data].  The HTMLImageElement's displayed size is *)
(* taken to be its intrinsic size, so drawImage never scales.              *)
(***************************************************************************)
EXTENDS Integers, Sequences, FiniteSets

\* ---------------------------------------------------------------- bounds
MaxSide == 3
MaxPixels == 9
MaxStride == 5

\* ------------------------------------------------------ program constants
DEFAULT_INACCURACY_PX == 5
AMOUT_OF_CHANNELS == 4
\* let firstMeaningfulX = Infinity: larger than any coordinate
Infinity == 1000000
\* the value of an out-of-range read of a typed array; undefined != 0 holds
Undefined == -1

AlphaValues == {0, 255}
Inaccuracies == (-1)..MaxStride

VARIABLES
    pc,               \* position: idle, loading, errored, entered, scan, done, thrown
    caller,           \* public method that was invoked
    promise,          \* state of the promise made by getCroppedImageUrl
    image,            \* the HTMLImageElement handed to cropImageElement
    inaccuracy,       \* the inaccuracy argument
    canvas,           \* the canvas the returned URL is encoded from
    imgData,          \* ctx.getImageData(...).data
    hasContent,
    firstMeaningfulX,
    firstMeaningfulY,
    lastMeaningfulX,
    lastMeaningfulY,
    SKIP_PIXEL,
    pixel,            \* loop variable of the scan
    path,             \* which return statement was taken: none, shortcut, scan
    result,           \* the URL delivered (promise value, or image.src)
    iterations,       \* history: loop bodies executed (saturates above width*height)
    reads             \* history: alpha samples read from imgData

vars == <<pc, caller, promise, image, inaccuracy, canvas, imgData, hasContent,
          firstMeaningfulX, firstMeaningfulY, lastMeaningfulX, lastMeaningfulY,
          SKIP_PIXEL, pixel, path, result, iterations, reads>>

\* ---------------------------------------------------------------- inputs
NoImage == [present |-> FALSE, width |-> 0, height |-> 0, data |-> <<>>]
NoCanvas == [width |-> 0, height |-> 0, data |-> <<>>]
NoURL == [empty |-> TRUE, width |-> 0, height |-> 0, data |-> <<>>]

\* channel array of n pixels with alpha a[p] and black colour channels
ChannelsOf(n, a) ==
    [k \in 1..(AMOUT_OF_CHANNELS * n) |->
        IF k % AMOUT_OF_CHANNELS = 0 THEN a[k \div AMOUT_OF_CHANNELS] ELSE 0]

ImagesOf(w, h) ==
    {[present |-> TRUE, width |-> w, height |-> h, data |-> ChannelsOf(w * h, a)] :
        a \in [1..(w * h) -> AlphaValues]}

Sizes == {s \in (0..MaxSide) \X (0..MaxSide) : s[1] * s[2] <= MaxPixels}

\* images an HTMLImageElement can hold (width/height 0: nothing decoded)
Images == UNION {ImagesOf(s[1], s[2]) : s \in Sizes}

\* ---------------------------------------------------------------- helpers
\* imgData[i] of a typed array
At(data, i) == IF i >= 0 /\ i < Len(data) THEN data[i + 1] ELSE Undefined

MathMax(a, b) == IF a >= b THEN a ELSE b

MathMin_Assign(a, b) == b

MathMin(a, b) == IF a <= b THEN a ELSE b

\* document.createElement('canvas') with the given size: transparent black
createCanvas(width, height) ==
    [width |-> width, height |-> height,
     data |-> [k \in 1..(AMOUT_OF_CHANNELS * width * height) |-> 0]]

\* ctx.drawImage(image, dx, dy, image.width, image.height) on a blank canvas:
\* canvas pixel (i, j) takes image pixel (i - dx, j - dy), clipped to the canvas
DrawImage(cv, img, dx, dy) ==
    [cv EXCEPT !.data =
        [k \in 1..Len(cv.data) |->
            LET p == (k - 1) \div AMOUT_OF_CHANNELS
                c == (k - 1) % AMOUT_OF_CHANNELS
                sx == (p % cv.width) - dx
                sy == (p \div cv.width) - dy
            IN  IF sx >= 0 /\ sx < img.width /\ sy >= 0 /\ sy < img.height
                THEN img.data[AMOUT_OF_CHANNELS * (sy * img.width + sx) + c + 1]
                ELSE cv.data[k]]]

\* new URL(canvas.toDataURL()): a lossless PNG of the canvas; a canvas without
\* area encodes as "data:," whatever its other dimension is
toDataURL(cv) ==
    IF cv.width = 0 \/ cv.height = 0
    THEN [empty |-> TRUE, width |-> 0, height |-> 0, data |-> <<>>]
    ELSE [empty |-> FALSE, width |-> cv.width, height |-> cv.height, data |-> cv.data]

IsInvalidImage_NoHeight(img) == ~img.present \/ img.width = 0

\* !image || !image.width || !image.height
IsInvalidImage(img) == ~img.present \/ img.width = 0 \/ img.height = 0

\* const SKIP_PIXEL = Math.max(0, inaccuracy)
SkipPixel(n) == MathMax(0, n)

ShortCircuit_Inverted(data) ==
    At(data, AMOUT_OF_CHANNELS - 1) = 0 /\ At(data, Len(data) - 1) = 0

\* imgData[3] != 0 && imgData[imgData.length - 1] != 0
ShortCircuit(data) ==
    At(data, AMOUT_OF_CHANNELS - 1) # 0 /\ At(data, Len(data) - 1) # 0

\* samples the short-circuit test reads (&& skips the second when the first fails)
ShortCircuitReads(data) == IF At(data, AMOUT_OF_CHANNELS - 1) # 0 THEN 2 ELSE 1

XOf_NoChannelDivide(px, imgWidth) == px % imgWidth

\* const x = (pixel / AMOUT_OF_CHANNELS) % imgWidth
XOf(px, imgWidth) == (px \div AMOUT_OF_CHANNELS) % imgWidth

\* const y = Math.floor(pixel / AMOUT_OF_CHANNELS / imgWidth)
YOf(px, imgWidth) == (px \div AMOUT_OF_CHANNELS) \div imgWidth

\* the scan's running values before the loop
ScanInit ==
    [hasContent |-> FALSE,
     firstMeaningfulX |-> Infinity, firstMeaningfulY |-> Infinity,
     lastMeaningfulX |-> -1, lastMeaningfulY |-> -1]

\* one execution of the loop body at index px
ScanPixel(acc, data, imgWidth, px) ==
    LET alpha == At(data, px + (AMOUT_OF_CHANNELS - 1))
        x == XOf(px, imgWidth)
        y == YOf(px, imgWidth)
    IN  IF alpha # 0
        THEN [hasContent |-> TRUE,
              firstMeaningfulX |-> MathMin(acc.firstMeaningfulX, x),
              firstMeaningfulY |-> MathMin(acc.firstMeaningfulY, y),
              lastMeaningfulX |-> MathMax(acc.lastMeaningfulX, x),
              lastMeaningfulY |-> MathMax(acc.lastMeaningfulY, y)]
        ELSE acc

NextPixel(px, skip) == px + AMOUT_OF_CHANNELS * skip

\* the whole loop from index px on, for a stride that advances (skip >= 1)
RECURSIVE ScanAll(_, _, _, _, _)
ScanAll(data, imgWidth, skip, px, acc) ==
    IF px < Len(data)
    THEN ScanAll(data, imgWidth, skip, NextPixel(px, skip),
                 ScanPixel(acc, data, imgWidth, px))
    ELSE acc

CropWidth_Inclusive(acc) == acc.lastMeaningfulX - acc.firstMeaningfulX + 1

\* const width = lastMeaningfulX - firstMeaningfulX
CropWidth(acc) == acc.lastMeaningfulX - acc.firstMeaningfulX

\* const height = lastMeaningfulY - firstMeaningfulY
CropHeight(acc) == acc.lastMeaningfulY - acc.firstMeaningfulY

\* the canvas left after "calculate meaningful image"
CropCanvas(cv, img, acc) ==
    IF acc.hasContent
    THEN DrawImage(createCanvas(CropWidth(acc), CropHeight(acc)), img,
                   -acc.firstMeaningfulX, -acc.firstMeaningfulY)
    ELSE cv

Acc ==
    [hasContent |-> hasContent,
     firstMeaningfulX |-> firstMeaningfulX, firstMeaningfulY |-> firstMeaningfulY,
     lastMeaningfulX |-> lastMeaningfulX, lastMeaningfulY |-> lastMeaningfulY]

\* ------------------------------------------------------------------ Init
Init ==
    /\ pc = "idle"
    /\ caller = "none"
    /\ promise = "none"
    /\ image = NoImage
    /\ inaccuracy = DEFAULT_INACCURACY_PX
    /\ canvas = NoCanvas
    /\ imgData = <<>>
    /\ hasContent = FALSE
    /\ firstMeaningfulX = Infinity
    /\ firstMeaningfulY = Infinity
    /\ lastMeaningfulX = -1
    /\ lastMeaningfulY = -1
    /\ SKIP_PIXEL = 0
    /\ pixel = 0
    /\ path = "none"
    /\ result = NoURL
    /\ iterations = 0
    /\ reads = 0

scanVars == <<hasContent, firstMeaningfulX, firstMeaningfulY, lastMeaningfulX,
              lastMeaningfulY>>

\* --------------------------------------------------------------- actions
\* getCroppedImageUrl(url, inaccuracy): make the promise, start loading
GetCroppedImageUrl ==
    /\ pc = "idle"
    /\ \E n \in Inaccuracies : inaccuracy' = n
    /\ pc' = "loading"
    /\ caller' = "getCroppedImageUrl"
    /\ promise' = "pending"
    /\ UNCHANGED <<image, canvas, imgData, scanVars, SKIP_PIXEL, pixel, path,
                   result, iterations, reads>>

\* image.onload: cropImageElement(image, inaccuracy) is called
OnLoad ==
    /\ pc = "loading"
    /\ \E img \in Images : image' = img
    /\ pc' = "entered"
    /\ UNCHANGED <<caller, promise, inaccuracy, canvas, imgData, scanVars,
                   SKIP_PIXEL, pixel, path, result, iterations, reads>>

\* image.onerror: an error object is constructed and dropped
OnError ==
    /\ pc = "loading"
    /\ pc' = "errored"
    /\ UNCHANGED <<caller, promise, image, inaccuracy, canvas, imgData, scanVars,
                   SKIP_PIXEL, pixel, path, result, iterations, reads>>

\* cropImage(image, inaccuracy): cropImageElement is called directly
CropImage ==
    /\ pc = "idle"
    /\ \E n \in Inaccuracies : inaccuracy' = n
    /\ \E img \in Images \cup {NoImage} : image' = img
    /\ pc' = "entered"
    /\ caller' = "cropImage"
    /\ UNCHANGED <<promise, canvas, imgData, scanVars, SKIP_PIXEL, pixel, path,
                   result, iterations, reads>>

\* return new URL(canvas.toDataURL()) and what the caller does with it:
\* onload resolves the promise, cropImage assigns image.src
Return(cv, by) ==
    /\ canvas' = cv
    /\ result' = toDataURL(cv)
    /\ path' = by
    /\ pc' = "done"
    /\ promise' = IF caller = "getCroppedImageUrl" THEN "resolved" ELSE promise

\* cropImageElement, guard failed: throw.  Inside onload nothing catches it
\* and the promise is left as it is; cropImage lets it reach its caller.
CropThrow ==
    /\ pc = "entered"
    /\ IsInvalidImage(image)
    /\ pc' = "thrown"
    /\ UNCHANGED <<caller, promise, image, inaccuracy, canvas, imgData, scanVars,
                   SKIP_PIXEL, pixel, path, result, iterations, reads>>

\* cropImageElement up to the short-circuit test, which returns the full canvas
CropShortCircuit ==
    /\ pc = "entered"
    /\ ~IsInvalidImage(image)
    /\ LET cv == DrawImage(createCanvas(image.width, image.height), image, 0, 0)
       IN  /\ ShortCircuit(cv.data)
           /\ imgData' = cv.data
           /\ reads' = reads + ShortCircuitReads(cv.data)
           /\ Return(cv, "shortcut")
    /\ SKIP_PIXEL' = SkipPixel(inaccuracy)
    /\ UNCHANGED <<caller, image, inaccuracy, scanVars, pixel, iterations>>

\* cropImageElement up to the loop's initialisation
CropBeginScan ==
    /\ pc = "entered"
    /\ ~IsInvalidImage(image)
    /\ LET cv == DrawImage(createCanvas(image.width, image.height), image, 0, 0)
       IN  /\ ~ShortCircuit(cv.data)
           /\ imgData' = cv.data
           /\ canvas' = cv
           /\ reads' = reads + ShortCircuitReads(cv.data)
    /\ SKIP_PIXEL' = SkipPixel(inaccuracy)
    /\ hasContent' = ScanInit.hasContent
    /\ firstMeaningfulX' = ScanInit.firstMeaningfulX
    /\ firstMeaningfulY' = ScanInit.firstMeaningfulY
    /\ lastMeaningfulX' = ScanInit.lastMeaningfulX
    /\ lastMeaningfulY' = ScanInit.lastMeaningfulY
    /\ pixel' = 0
    /\ pc' = "scan"
    /\ UNCHANGED <<caller, promise, image, inaccuracy, path, result, iterations>>

\* one iteration of the for loop: test, body, increment
ScanStep ==
    /\ pc = "scan"
    /\ pixel < Len(imgData)
    /\ LET acc == ScanPixel(Acc, imgData, image.width, pixel)
       IN  /\ hasContent' = acc.hasContent
           /\ firstMeaningfulX' = acc.firstMeaningfulX
           /\ firstMeaningfulY' = acc.firstMeaningfulY
           /\ lastMeaningfulX' = acc.lastMeaningfulX
           /\ lastMeaningfulY' = acc.lastMeaningfulY
    /\ pixel' = NextPixel(pixel, SKIP_PIXEL)
    /\ iterations' = IF iterations <= image.width * image.height
                     THEN iterations + 1 ELSE iterations
    /\ reads' = IF iterations <= image.width * image.height
                THEN reads + 1 ELSE reads
    /\ UNCHANGED <<pc, caller, promise, image, inaccuracy, canvas, imgData,
                   SKIP_PIXEL, path, result>>

\* the loop test fails: crop if there is content, and return
ScanExit ==
    /\ pc = "scan"
    /\ ~(pixel < Len(imgData))
    /\ Return(CropCanvas(canvas, image, Acc), "scan")
    /\ UNCHANGED <<caller, image, inaccuracy, imgData, scanVars, SKIP_PIXEL, pixel,
                   iterations, reads>>

Next ==
    \/ GetCroppedImageUrl
    \/ OnLoad
    \/ OnError
    \/ CropImage
    \/ CropThrow
    \/ CropShortCircuit
    \/ CropBeginScan
    \/ ScanStep
    \/ ScanExit

Spec == Init /\ [][Next]_vars

\* ------------------------------------------------------- claim vocabulary
Original(img) == [width |-> img.width, height |-> img.height, data |-> img.data]

\* alpha of the pixel with raster index i
AlphaOf(img, i) == At(img.data, AMOUT_OF_CHANNELS * i + (AMOUT_OF_CHANNELS - 1))

PixelCount(img) == img.width * img.height

\* cropImageElement has got past its first statement
Called == pc \in {"thrown", "scan", "done"}

SetMin(S) == CHOOSE m \in S : \A n \in S : m <= n

SetMax(S) == CHOOSE m \in S : \A n \in S : m >= n

\* the RGBA value of pixel (x, y) of an image or canvas
PixelAt(b, x, y) ==
    [c \in 0..(AMOUT_OF_CHANNELS - 1) |->
        At(b.data, AMOUT_OF_CHANNELS * (y * b.width + x) + c)]

InitialCall ==
    /\ canvas = NoCanvas /\ imgData = <<>> /\ result = NoURL /\ path = "none"
    /\ reads = 0 /\ iterations = 0

\* ------------------------------------------------------------------ C1
\* C1: a valid image whose first and last pixel both have non-zero alpha is
\* returned whole (same size, same pixels) whatever the inaccuracy is and
\* whatever the other pixels are; the scan loop is never entered.
C1_ShortCircuit ==
    (Called /\ image.present /\ PixelCount(image) >= 1
        /\ AlphaOf(image, 0) # 0 /\ AlphaOf(image, PixelCount(image) - 1) # 0)
    => /\ pc = "done"
       /\ path = "shortcut"
       /\ canvas = Original(image)
       /\ result = toDataURL(Original(image))
       /\ iterations = 0

\* a 3x3 image opaque only at (0,0) and (2,2), returned whole for a stride <= 0
C1_Witness ==
    /\ pc = "done"
    /\ inaccuracy <= 0
    /\ image.width = 3 /\ image.height = 3
    /\ \A i \in 0..8 : (AlphaOf(image, i) # 0) <=> (i \in {0, 8})
    /\ canvas = Original(image)

\* ------------------------------------------------------------------ C2
\* C2: for a valid image whose every alpha is 0, and for every inaccuracy,
\* extract returns (the loop body runs at most once per pixel) and what it
\* returns is the original image with hasContent false.
AllTransparent(img) == \A i \in 0..(PixelCount(img) - 1) : AlphaOf(img, i) = 0

C2_Original ==
    (pc \in {"scan", "done"} /\ AllTransparent(image))
    => /\ iterations <= PixelCount(image)
       /\ pc = "done" => (canvas = Original(image) /\ ~hasContent)

\* ------------------------------------------------------------------ C3
\* the outcome of cropImageElement as a function of its arguments, for an
\* inaccuracy whose stride advances the loop
Extract(img, n) ==
    LET cv == DrawImage(createCanvas(img.width, img.height), img, 0, 0)
        acc == ScanAll(cv.data, img.width, SkipPixel(n), 0, ScanInit)
    IN  IF ShortCircuit(cv.data)
        THEN [path |-> "shortcut", acc |-> ScanInit, canvas |-> cv]
        ELSE [path |-> "scan", acc |-> acc, canvas |-> CropCanvas(cv, img, acc)]

\* C3: with inaccuracy 0 or negative the scan runs with an effective stride
\* of at least 1 and ends with the outcome inaccuracy 1 gives.
C3_Original ==
    (pc \in {"scan", "done"} /\ inaccuracy <= 0)
    => /\ SKIP_PIXEL >= 1
       /\ pc = "done" =>
            /\ canvas = Extract(image, 1).canvas
            /\ path = Extract(image, 1).path
            /\ Acc = Extract(image, 1).acc

\* ------------------------------------------------------------------ C4
Malformed(img) ==
    \/ ~img.present
    \/ img.width <= 0
    \/ img.height <= 0
    \/ Len(img.data) # img.width * img.height * AMOUT_OF_CHANNELS

\* C4: called with a missing image or one with a zero dimension,
\* cropImageElement throws: no canvas is made, no sample is read, the loop is
\* not entered and no URL is returned.
C4_MalformedRejected ==
    (Called /\ Malformed(image)) => (pc = "thrown" /\ InitialCall)

\* an image with a width but no height has been rejected
C4_Witness ==
    /\ pc = "thrown"
    /\ image.present /\ image.width > 0 /\ image.height = 0
    /\ InitialCall

\* ------------------------------------------------------------------ C5
\* what the scan finds with inaccuracy 1
Exhaustive == ScanAll(imgData, image.width, SkipPixel(1), 0, ScanInit)

ScanFoundContent == pc = "done" /\ path = "scan" /\ hasContent

\* C5 as stated: the box found with inaccuracy 1 lies within the box found
\* with an inaccuracy N > 1.
C5_Original ==
    (ScanFoundContent /\ inaccuracy > 1 /\ Exhaustive.hasContent)
    => /\ firstMeaningfulX <= Exhaustive.firstMeaningfulX
       /\ firstMeaningfulY <= Exhaustive.firstMeaningfulY
       /\ lastMeaningfulX >= Exhaustive.lastMeaningfulX
       /\ lastMeaningfulY >= Exhaustive.lastMeaningfulY

\* C5 amended: the box found with an inaccuracy N > 1 lies within the box
\* found with inaccuracy 1, which then has content too.
C5_Amended ==
    (ScanFoundContent /\ inaccuracy > 1)
    => /\ Exhaustive.hasContent
       /\ firstMeaningfulX >= Exhaustive.firstMeaningfulX
       /\ firstMeaningfulY >= Exhaustive.firstMeaningfulY
       /\ lastMeaningfulX <= Exhaustive.lastMeaningfulX
       /\ lastMeaningfulY <= Exhaustive.lastMeaningfulY

\* a stride > 1 missed content on every side: its box is strictly inside
C5_Witness ==
    /\ ScanFoundContent /\ inaccuracy > 1
    /\ firstMeaningfulX > Exhaustive.firstMeaningfulX
    /\ firstMeaningfulY > Exhaustive.firstMeaningfulY
    /\ lastMeaningfulX < Exhaustive.lastMeaningfulX
    /\ lastMeaningfulY < Exhaustive.lastMeaningfulY

Opaque(b) ==
    {xy \in (0..(b.width - 1)) \X (0..(b.height - 1)) :
        PixelAt(b, xy[1], xy[2])[AMOUT_OF_CHANNELS - 1] # 0}

\* C7: when a crop is produced, image pixel (firstMeaningfulX,
\* firstMeaningfulY) is pixel (0,0) of the canvas, every canvas pixel (i,j) is
\* image pixel (firstMeaningfulX + i, firstMeaningfulY + j), and an image with
\* one non-transparent pixel, scanned with inaccuracy 1, gives a canvas whose
\* only non-transparent pixel is (0,0).
C7_Original ==
    ScanFoundContent
    => /\ canvas.width >= 1 /\ canvas.height >= 1
       /\ PixelAt(canvas, 0, 0) = PixelAt(image, firstMeaningfulX, firstMeaningfulY)
       /\ \A i \in 0..(canvas.width - 1) : \A j \in 0..(canvas.height - 1) :
            PixelAt(canvas, i, j)
                = PixelAt(image, firstMeaningfulX + i, firstMeaningfulY + j)
       /\ (inaccuracy = 1 /\ Cardinality(Opaque(image)) = 1)
            => Opaque(canvas) = {<<0, 0>>}

\* ------------------------------------------------------------------ C8
\* C8: once the load or the error event has been handled the promise of
\* getCroppedImageUrl is settled: resolved after a crop that returned,
\* rejected after the error event or after a crop that threw.
C8_Original ==
    /\ pc = "errored" => promise = "rejected"
    /\ (caller = "getCroppedImageUrl" /\ pc = "thrown") => promise = "rejected"
    /\ (caller = "getCroppedImageUrl" /\ pc = "done") => promise = "resolved"

\* ------------------------------------------------------------------ C9
\* C9: the scan loop runs its body at most width*height times and its index
\* has grown by at least one pixel per iteration.
C9_Original ==
    pc \in {"scan", "done"}
    => /\ iterations <= PixelCount(image)
       /\ pixel >= AMOUT_OF_CHANNELS * iterations

\* ------------------------------------------------------------------ C10
\* raster indices the scan visits with the stride in use
Sampled == {i \in 0..(PixelCount(image) - 1) : i % SKIP_PIXEL = 0}

Hits == {i \in Sampled : AlphaOf(image, i) # 0}

\* C10: a scan that ends has a stride >= 1 and visited exactly the raster
\* indices 0, N, 2N, ...; hasContent says whether one of them has non-zero
\* alpha, and then the four bounds are the extremes of index % width and
\* index \div width over those, inside the image.
C10_ScanResult ==
    (pc = "done" /\ path = "scan")
    => /\ SKIP_PIXEL >= 1
       /\ iterations = Cardinality(Sampled)
       /\ hasContent = (Hits # {})
       /\ Hits # {} =>
            /\ firstMeaningfulX = SetMin({i % image.width : i \in Hits})
            /\ lastMeaningfulX = SetMax({i % image.width : i \in Hits})
            /\ firstMeaningfulY = SetMin({i \div image.width : i \in Hits})
            /\ lastMeaningfulY = SetMax({i \div image.width : i \in Hits})
            /\ 0 <= firstMeaningfulX /\ firstMeaningfulX <= lastMeaningfulX
            /\ lastMeaningfulX < image.width
            /\ 0 <= firstMeaningfulY /\ firstMeaningfulY <= lastMeaningfulY
            /\ lastMeaningfulY < image.height
       /\ Hits = {} =>
            /\ firstMeaningfulX = Infinity /\ firstMeaningfulY = Infinity
            /\ lastMeaningfulX = -1 /\ lastMeaningfulY = -1

\* a scan with stride 2 found content and skipped a non-transparent pixel
\* left of the box it reports
C10_Witness ==
    /\ pc = "done" /\ path = "scan" /\ SKIP_PIXEL = 2 /\ hasContent
    /\ \E i \in 0..(PixelCount(image) - 1) :
        /\ AlphaOf(image, i) # 0
        /\ i % image.width < firstMeaningfulX

====
